---------------------------- MODULE Spec2Model ----------------------------
(***************************************************************************)
(* A model of computeSales.py: build_price_map, compute_sales and          *)
(* format_output, each a loop over an in-memory JSON structure.            *)
(*                                                                         *)
(* A JSON value is a record [t, n, s]: t is the Python type of the value,  *)
(* n its numeric value and s its text, a sequence of characters.  Numbers  *)
(* are whole: ints, whole floats, and the booleans, which Python counts as *)
(* the ints 0 and 1.  A JSON object is a function from the keys it holds   *)
(* to values, so that a missing key and a key holding null are different   *)
(* things, as they are for dict.get.                                       *)
(***************************************************************************)
EXTENDS Integers, Sequences, FiniteSets, TLC

VARIABLES
    pc,            \* where the program is
    catalogue,     \* argument of build_price_map
    ci,            \* position of build_price_map's loop in catalogue
    price_map,     \* the dict under construction, then compute_sales's argument
    sales,         \* argument of compute_sales
    si,            \* position of the outer loop in sales
    ii,            \* position of the inner loop in the current sale's items
    sale_total,
    grand_total,
    results,
    diag,          \* what has been printed so far, one entry per print call
    fi,            \* position of format_output's loop in results
    lines,         \* format_output's list of lines
    output,        \* format_output's return value
    elapsed_time   \* format_output's argument, in ten-thousandths of a second

vars == <<pc, catalogue, ci, price_map, sales, si, ii, sale_total, grand_total,
          results, diag, fi, lines, output, elapsed_time>>

buildVars  == <<catalogue, ci, price_map>>
salesVars  == <<sales, si, ii, sale_total, grand_total, results>>
formatVars == <<fi, lines, output, elapsed_time>>

-----------------------------------------------------------------------------
(* Bounds of the model. *)

MaxCat == 2        \* entries in a catalogue
MaxSales == 2      \* records in a sales list, results in a report
MaxItems == 2      \* items in a whole sales list

-----------------------------------------------------------------------------
(* JSON values. *)

JInt(k)      == [t |-> "int",   n |-> k, s |-> <<>>]
JFloat(k)    == [t |-> "float", n |-> k, s |-> <<>>]
JBool(b)     == [t |-> "bool",  n |-> IF b THEN 1 ELSE 0, s |-> <<>>]
JStr(x)      == [t |-> "str",   n |-> 0, s |-> x]
None         == [t |-> "NoneType", n |-> 0, s |-> <<>>]
JListOf(seq) == [t |-> "list",  n |-> 0, s |-> <<>>, items |-> seq]
JList        == JListOf(<<>>)

\* Not a value: marks a key that the object does not hold.
Missing == [t |-> "missing", n |-> 0, s |-> <<>>]

A       == JStr(<<"A">>)
B       == JStr(<<"B">>)
S1      == JStr(<<"S", "1">>)
Bob     == JStr(<<"B", "o", "b">>)
BadText == JStr(<<"x">>)
UNKNOWN == JStr(<<"U", "N", "K", "N", "O", "W", "N">>)

EmptyDict == [k \in {} |-> None]

\* dict.get(key, default)
Get(d, key, default) == IF key \in DOMAIN d THEN d[key] ELSE default

\* x in d, for a dict d
HasKey(d, x) == x \in DOMAIN d

\* isinstance(v, (int, float)): bool is a subclass of int
IsIntOrFloat(v) == v.t \in {"int", "float", "bool"}

\* A dict hashes its keys; of the values here only a list cannot be hashed.
Hashable(v) == v.t # "list"

SeqsUpTo(S, k) == UNION {[1..m -> S] : m \in 0..k}

-----------------------------------------------------------------------------
(* build_price_map *)

MkEntry(title, price) ==
    LET val(k) == IF k = "title" THEN title ELSE price
    IN  [k \in {f \in {"title", "price"} : val(f) # Missing} |-> val(k)]

\* lines 20-21
EntryTitle(item) == Get(item, "title", None)
EntryPrice(item) == Get(item, "price", None)

\* line 22
EntryIncomplete(item) == EntryTitle(item) = None \/ EntryPrice(item) = None

\* line 25
PriceInvalidNoSign(price) == ~IsIntOrFloat(price)
PriceInvalid(price) == ~IsIntOrFloat(price) \/ price.n < 0

\* line 28: price_map[title] = price
StoreFirstWins(map, title, price) ==
    IF title \in DOMAIN map THEN map
    ELSE [k \in DOMAIN map \cup {title} |-> IF k = title THEN price ELSE map[k]]
Store(map, title, price) ==
    [k \in DOMAIN map \cup {title} |-> IF k = title THEN price ELSE map[k]]

\* lines 22-28: what the loop body does with an entry
EntryOutcome(item) ==
    IF EntryIncomplete(item) THEN "incomplete"
    ELSE IF PriceInvalid(EntryPrice(item)) THEN "price"
    ELSE IF ~Hashable(EntryTitle(item)) THEN "raise"
    ELSE "store"

InBuild == pc = "build" /\ ci <= Len(catalogue)

BuildSkipIncomplete ==
    /\ InBuild
    /\ EntryOutcome(catalogue[ci]) = "incomplete"
    /\ diag' = Append(diag, [level |-> "WARNING", what |-> "entry",
                             item |-> catalogue[ci]])
    /\ ci' = ci + 1
    /\ UNCHANGED <<pc, catalogue, price_map, salesVars, formatVars>>

BuildSkipPrice ==
    /\ InBuild
    /\ EntryOutcome(catalogue[ci]) = "price"
    /\ diag' = Append(diag, [level |-> "WARNING", what |-> "price",
                             title |-> EntryTitle(catalogue[ci]),
                             price |-> EntryPrice(catalogue[ci])])
    /\ ci' = ci + 1
    /\ UNCHANGED <<pc, catalogue, price_map, salesVars, formatVars>>

BuildStore ==
    /\ InBuild
    /\ EntryOutcome(catalogue[ci]) = "store"
    /\ price_map' = Store(price_map, EntryTitle(catalogue[ci]),
                          EntryPrice(catalogue[ci]))
    /\ ci' = ci + 1
    /\ UNCHANGED <<pc, catalogue, salesVars, diag, formatVars>>

\* line 28 with an unhashable title: TypeError
BuildRaise ==
    /\ InBuild
    /\ EntryOutcome(catalogue[ci]) = "raise"
    /\ pc' = "raised"
    /\ UNCHANGED <<buildVars, salesVars, diag, formatVars>>

\* line 29
BuildReturn ==
    /\ pc = "build"
    /\ ci > Len(catalogue)
    /\ pc' = "built"
    /\ UNCHANGED <<buildVars, salesVars, diag, formatVars>>

BuildPriceMapStep ==
    \/ BuildSkipIncomplete
    \/ BuildSkipPrice
    \/ BuildStore
    \/ BuildRaise
    \/ BuildReturn

-----------------------------------------------------------------------------
(* compute_sales *)

MkItem(product, quantity) ==
    LET val(k) == IF k = "Product" THEN product ELSE quantity
    IN  [k \in {f \in {"Product", "Quantity"} : val(f) # Missing} |-> val(k)]

MkSale(id, customer, items) ==
    LET val(k) == IF k = "SALE_ID" THEN id
                  ELSE IF k = "Customer" THEN customer ELSE items
    IN  [k \in {f \in {"SALE_ID", "Customer", "Items"} : val(f) # Missing} |-> val(k)]

\* lines 38-40
SaleId(sale)   == Get(sale, "SALE_ID", UNKNOWN)
Customer(sale) == Get(sale, "Customer", UNKNOWN)
ItemsOf(sale)  == Get(sale, "Items", JList)

\* line 43: a for loop needs an iterable; of the values Items takes here, a
\* list is one and None is not
Iterable(v) == v.t = "list"

\* lines 44-45
Product(item) == Get(item, "Product", None)
QuantityDefaultOne(item) == Get(item, "Quantity", JInt(1))
Quantity(item) == Get(item, "Quantity", JInt(0))

\* line 47
ProductKnown(map, product) == HasKey(map, product)

\* line 51
QuantityInvalid(quantity) == ~IsIntOrFloat(quantity) \/ quantity.n <= 0

\* lines 47-56: what the loop body does with an item
ItemOutcomeQuantityFirst(map, item) ==
    IF ~Hashable(Product(item)) THEN "raise"
    ELSE IF QuantityInvalid(Quantity(item)) THEN "quantity"
    ELSE IF ~ProductKnown(map, Product(item)) THEN "unknown"
    ELSE "accumulate"
ItemOutcome(map, item) ==
    IF ~Hashable(Product(item)) THEN "raise"
    ELSE IF ~ProductKnown(map, Product(item)) THEN "unknown"
    ELSE IF QuantityInvalid(Quantity(item)) THEN "quantity"
    ELSE "accumulate"

\* line 56
LineCost(map, product, quantity) == map[product].n * quantity.n

\* line 58
NewGrandTotalAssign(total, sale) == sale
NewGrandTotal(total, sale) == total + sale

\* lines 59-63
SaleResultNoDefault(sale, total) ==
    [sale_id |-> Get(sale, "SALE_ID", None), customer |-> Customer(sale),
     total |-> total]
SaleResult(sale, total) ==
    [sale_id |-> SaleId(sale), customer |-> Customer(sale), total |-> total]

\* lines 48-49 and 52-53: the two diagnostics of compute_sales
ErrorDiag(sale, item) ==
    [level |-> "ERROR", what |-> "product", product |-> Product(item),
     sale |-> SaleId(sale)]
WarningDiag(sale, item) ==
    [level |-> "WARNING", what |-> "quantity", product |-> Product(item),
     sale |-> SaleId(sale), quantity |-> Quantity(item)]

CurSale  == sales[si]
CurItems == ItemsOf(CurSale).items
CurItem  == CurItems[ii]

InSales == pc = "sales" /\ si <= Len(sales)
InItems == pc = "items" /\ ii <= Len(CurItems)

\* lines 37-43: the next sale, its items iterable
SaleBegin ==
    /\ InSales
    /\ Iterable(ItemsOf(CurSale))
    /\ sale_total' = 0
    /\ ii' = 1
    /\ pc' = "items"
    /\ UNCHANGED <<buildVars, sales, si, grand_total, results, diag, formatVars>>

\* line 43 with items that cannot be iterated: TypeError
SaleRaise ==
    /\ InSales
    /\ ~Iterable(ItemsOf(CurSale))
    /\ sale_total' = 0
    /\ pc' = "raised"
    /\ UNCHANGED <<buildVars, sales, si, ii, grand_total, results, diag, formatVars>>

\* line 47 with an unhashable product: TypeError
ItemRaise ==
    /\ InItems
    /\ ItemOutcome(price_map, CurItem) = "raise"
    /\ pc' = "raised"
    /\ UNCHANGED <<buildVars, salesVars, diag, formatVars>>

ItemSkipUnknown ==
    /\ InItems
    /\ ItemOutcome(price_map, CurItem) = "unknown"
    /\ diag' = Append(diag, ErrorDiag(CurSale, CurItem))
    /\ ii' = ii + 1
    /\ UNCHANGED <<pc, buildVars, sales, si, sale_total, grand_total, results,
                   formatVars>>

ItemSkipQuantity ==
    /\ InItems
    /\ ItemOutcome(price_map, CurItem) = "quantity"
    /\ diag' = Append(diag, WarningDiag(CurSale, CurItem))
    /\ ii' = ii + 1
    /\ UNCHANGED <<pc, buildVars, sales, si, sale_total, grand_total, results,
                   formatVars>>

ItemAccumulate ==
    /\ InItems
    /\ ItemOutcome(price_map, CurItem) = "accumulate"
    /\ sale_total' = sale_total + LineCost(price_map, Product(CurItem),
                                           Quantity(CurItem))
    /\ ii' = ii + 1
    /\ UNCHANGED <<pc, buildVars, sales, si, grand_total, results, diag, formatVars>>

\* lines 58-63, after the last item
SaleEnd ==
    /\ pc = "items"
    /\ ii > Len(CurItems)
    /\ grand_total' = NewGrandTotal(grand_total, sale_total)
    /\ results' = Append(results, SaleResult(CurSale, sale_total))
    /\ si' = si + 1
    /\ pc' = "sales"
    /\ UNCHANGED <<buildVars, sales, ii, sale_total, diag, formatVars>>

\* line 65
SalesReturn ==
    /\ pc = "sales"
    /\ si > Len(sales)
    /\ pc' = "done"
    /\ UNCHANGED <<buildVars, salesVars, diag, formatVars>>

ComputeSalesStep ==
    \/ SaleBegin
    \/ SaleRaise
    \/ ItemRaise
    \/ ItemSkipUnknown
    \/ ItemSkipQuantity
    \/ ItemAccumulate
    \/ SaleEnd
    \/ SalesReturn

-----------------------------------------------------------------------------
(* format_output.  A string is a sequence of characters. *)

BannerWidth == 50

NL == "\n"

RECURSIVE Repeat(_, _)
Repeat(c, k) == IF k = 0 THEN <<>> ELSE <<c>> \o Repeat(c, k - 1)

Digit(d) == <<"0", "1", "2", "3", "4", "5", "6", "7", "8", "9">>[d + 1]

RECURSIVE Digits(_)
Digits(k) == IF k < 10 THEN <<Digit(k)>> ELSE Digits(k \div 10) \o <<Digit(k % 10)>>

\* k in exactly w digits
RECURSIVE Padded(_, _)
Padded(k, w) == IF w = 0 THEN <<>> ELSE Padded(k \div 10, w - 1) \o <<Digit(k % 10)>>

RECURSIVE Grouped(_)
Grouped(k) ==
    IF k < 1000 THEN Digits(k)
    ELSE Grouped(k \div 1000) \o <<",">> \o Padded(k % 1000, 3)

\* f"{x:,.2f}" of a whole number
Money(x) ==
    (IF x < 0 THEN <<"-">> ELSE <<>>)
    \o Grouped(IF x < 0 THEN -x ELSE x) \o <<".", "0", "0">>

\* f"{x:.4f}" of a number of ten-thousandths
Seconds(x) == Digits(x \div 10000) \o <<".">> \o Padded(x % 10000, 4)

\* f"{v}" of a value
Text(v) ==
    IF v.t = "str" THEN v.s
    ELSE IF v.t = "NoneType" THEN <<"N", "o", "n", "e">>
    ELSE IF v.t = "bool" THEN (IF v.n = 1 THEN <<"T", "r", "u", "e">>
                               ELSE <<"F", "a", "l", "s", "e">>)
    ELSE IF v.t = "list" THEN <<"[", "]">>
    ELSE (IF v.n < 0 THEN <<"-">> ELSE <<>>) \o Digits(IF v.n < 0 THEN -v.n ELSE v.n)
         \o (IF v.t = "float" THEN <<".", "0">> ELSE <<>>)

\* lines 71-73
HeaderLines ==
    << Repeat("=", BannerWidth),
       <<" ", " ", " ", " ", " ", " ", " ", " ", " ", " ", " ", "S", "A", "L",
         "E", "S", " ", "R", "E", "S", "U", "L", "T", "S", " ", "R", "E", "P",
         "O", "R", "T">>,
       Repeat("=", BannerWidth) >>

\* lines 76-79
ResultLines(result) ==
    << <<"S", "a", "l", "e", " ", "I", "D", " ", " ", ":", " ">>
           \o Text(result.sale_id),
       <<"C", "u", "s", "t", "o", "m", "e", "r", " ", ":", " ">>
           \o Text(result.customer),
       <<"T", "o", "t", "a", "l", " ", " ", " ", " ", ":", " ", "$">>
           \o Money(result.total),
       Repeat("-", BannerWidth) >>

\* lines 81-83
FooterLines(total, elapsed) ==
    << <<"G", "R", "A", "N", "D", " ", "T", "O", "T", "A", "L", ":", " ", "$">>
           \o Money(total),
       Repeat("=", BannerWidth),
       <<"E", "x", "e", "c", "u", "t", "i", "o", "n", " ", "t", "i", "m", "e",
         ":", " ">> \o Seconds(elapsed)
           \o <<" ", "s", "e", "c", "o", "n", "d", "s">> >>

\* line 85: "\n".join(ls)
RECURSIVE JoinEach(_)
JoinEach(ls) == IF ls = <<>> THEN <<>> ELSE Head(ls) \o <<NL>> \o JoinEach(Tail(ls))
RECURSIVE Join(_)
Join(ls) ==
    IF ls = <<>> THEN <<>>
    ELSE IF Len(ls) = 1 THEN ls[1]
    ELSE Head(ls) \o <<NL>> \o Join(Tail(ls))

FormatHeader ==
    /\ pc = "format"
    /\ lines' = HeaderLines
    /\ fi' = 1
    /\ pc' = "format_results"
    /\ UNCHANGED <<buildVars, salesVars, diag, output, elapsed_time>>

FormatResult ==
    /\ pc = "format_results"
    /\ fi <= Len(results)
    /\ lines' = lines \o ResultLines(results[fi])
    /\ fi' = fi + 1
    /\ UNCHANGED <<pc, buildVars, salesVars, diag, output, elapsed_time>>

FormatFooter ==
    /\ pc = "format_results"
    /\ fi > Len(results)
    /\ lines' = lines \o FooterLines(grand_total, elapsed_time)
    /\ pc' = "format_join"
    /\ UNCHANGED <<buildVars, salesVars, diag, fi, output, elapsed_time>>

FormatReturn ==
    /\ pc = "format_join"
    /\ output' = Join(lines)
    /\ pc' = "formatted"
    /\ UNCHANGED <<buildVars, salesVars, diag, fi, lines, elapsed_time>>

FormatOutputStep ==
    \/ FormatHeader
    \/ FormatResult
    \/ FormatFooter
    \/ FormatReturn

-----------------------------------------------------------------------------
(* main, lines 112-113: compute_sales is called with the map built *)

CallComputeSales ==
    /\ pc = "built"
    /\ si' = 1
    /\ grand_total' = 0
    /\ results' = <<>>
    /\ pc' = "sales"
    /\ UNCHANGED <<buildVars, sales, ii, sale_total, diag, formatVars>>

-----------------------------------------------------------------------------
(* The inputs the specifications draw. *)

Titles == {Missing, A, B, JList}
Prices == {Missing, None, BadText, JBool(TRUE), JInt(-5), JInt(0), JInt(2), JFloat(3)}
CatEntries == {MkEntry(t, p) : t \in Titles, p \in Prices}

(* Sales lists of at most MaxSales records holding at most MaxItems items  *)
(* between them.  A record's Items is missing, null or a list; a shape     *)
(* gives that choice and the list's length for each record, and flat holds *)
(* the items of all the lists one after the other.                         *)
ItemsShapes ==
    {[kind |-> "missing", len |-> 0], [kind |-> "null", len |-> 0]}
    \cup {[kind |-> "list", len |-> k] : k \in 0..MaxItems}

RECURSIVE TotalLen(_, _)
TotalLen(shape, m) == IF m = 0 THEN 0 ELSE shape[m].len + TotalLen(shape, m - 1)

Shapes(m) == {sh \in [1..m -> ItemsShapes] : TotalLen(sh, m) <= MaxItems}

ItemsField(shape, flat, i) ==
    IF shape[i].kind = "missing" THEN Missing
    ELSE IF shape[i].kind = "null" THEN None
    ELSE JListOf(SubSeq(flat, TotalLen(shape, i - 1) + 1, TotalLen(shape, i)))

SalesInput(Ids, Customers, Items) ==
    \E m \in 0..MaxSales : \E shape \in Shapes(m) :
    \E ids \in [1..m -> Ids] : \E customers \in [1..m -> Customers] :
    \E flat \in [1..TotalLen(shape, m) -> Items] :
        sales = [i \in 1..m |-> MkSale(ids[i], customers[i],
                                       ItemsField(shape, flat, i))]

\* Record-level inputs: every shape of record header, few kinds of item.
FewItems == {MkItem(A, JInt(2)), MkItem(A, JInt(0)), MkItem(JList, JInt(1))}

\* Item-level inputs: one record header, every kind of item.
ManyItems ==
    {MkItem(A, q) : q \in {Missing, None, BadText, JBool(TRUE), JInt(-1),
                           JInt(0), JInt(2)}}
    \cup {MkItem(B, JFloat(3)), MkItem(B, JInt(0)), MkItem(Missing, JInt(2)),
          MkItem(JList, JInt(1))}

MapA  == [k \in {A} |-> JInt(2)]
MapAB == [k \in {A, B} |-> IF k = A THEN JFloat(3) ELSE JInt(5)]
PriceMaps == {EmptyDict, MapA, MapAB}

\* Pipeline inputs.
PipeEntries == {MkEntry(A, JInt(-5)), MkEntry(A, JInt(2)), MkEntry(Missing, JInt(2)),
                MkEntry(JList, JInt(2))}
PipeItems == {MkItem(A, JInt(2)), MkItem(A, JInt(0)), MkItem(JList, JInt(1))}

\* Report inputs.
ReportResults ==
    {[sale_id |-> id, customer |-> Bob, total |-> t] :
        id \in {S1, UNKNOWN}, t \in {0, 7, 1234567}}

\* build_price_map alone, on every catalogue
InitBuild ==
    /\ pc = "build"
    /\ catalogue \in SeqsUpTo(CatEntries, MaxCat)
    /\ ci = 1
    /\ price_map = EmptyDict
    /\ sales = <<>>
    /\ si = 1
    /\ ii = 1
    /\ sale_total = 0
    /\ grand_total = 0
    /\ results = <<>>
    /\ diag = <<>>
    /\ fi = 1
    /\ lines = <<>>
    /\ output = <<>>
    /\ elapsed_time = 0

SpecBuild == InitBuild /\ [][BuildPriceMapStep]_vars

\* compute_sales alone, on a price map of any content
InitComputeSales ==
    /\ pc = "sales"
    /\ catalogue = <<>>
    /\ ci = 1
    /\ price_map \in PriceMaps
    /\ si = 1
    /\ ii = 1
    /\ sale_total = 0
    /\ grand_total = 0
    /\ results = <<>>
    /\ diag = <<>>
    /\ fi = 1
    /\ lines = <<>>
    /\ output = <<>>
    /\ elapsed_time = 0

InitSales ==
    /\ InitComputeSales
    /\ SalesInput({Missing, S1}, {Missing, Bob}, FewItems)

InitItems ==
    /\ InitComputeSales
    /\ SalesInput({S1}, {Bob}, ManyItems)

SpecSales == InitSales /\ [][ComputeSalesStep]_vars
SpecItems == InitItems /\ [][ComputeSalesStep]_vars

\* format_output alone
InitFormat ==
    /\ pc = "format"
    /\ catalogue = <<>>
    /\ ci = 1
    /\ price_map = EmptyDict
    /\ sales = <<>>
    /\ si = 1
    /\ ii = 1
    /\ sale_total = 0
    /\ grand_total \in {0, 1234}
    /\ results \in SeqsUpTo(ReportResults, MaxSales)
    /\ diag = <<>>
    /\ fi = 1
    /\ lines = <<>>
    /\ output = <<>>
    /\ elapsed_time \in {0, 12345}

SpecFormat == InitFormat /\ [][FormatOutputStep]_vars

\* build_price_map, then compute_sales with the map it returned
Init ==
    /\ pc = "build"
    /\ catalogue \in SeqsUpTo(PipeEntries, MaxCat)
    /\ ci = 1
    /\ price_map = EmptyDict
    /\ SalesInput({S1}, {Bob}, PipeItems)
    /\ si = 1
    /\ ii = 1
    /\ sale_total = 0
    /\ grand_total = 0
    /\ results = <<>>
    /\ diag = <<>>
    /\ fi = 1
    /\ lines = <<>>
    /\ output = <<>>
    /\ elapsed_time = 0

Next ==
    \/ BuildPriceMapStep
    \/ CallComputeSales
    \/ ComputeSalesStep

Spec == Init /\ [][Next]_vars

-----------------------------------------------------------------------------
(* What the claims speak of, stated on the inputs and results alone. *)

\* A number as the code tests for one: an int or a float, the booleans among
\* the ints.
ClaimNumeric(v) == v.t \in {"int", "float", "bool"}

\* The object holds the key, and not null under it.
ClaimHas(d, key) == key \in DOMAIN d /\ d[key] # None

ClaimValidEntry(e) ==
    /\ ClaimHas(e, "title")
    /\ ClaimHas(e, "price")
    /\ ClaimNumeric(e.price)
    /\ e.price.n >= 0

ClaimBadPrice(e) ==
    "price" \in DOMAIN e /\ (~ClaimNumeric(e.price) \/ e.price.n < 0)

\* The map holds the entry: its title, with its price.
ClaimHeld(e) ==
    /\ "title" \in DOMAIN e
    /\ "price" \in DOMAIN e
    /\ e.title \in DOMAIN price_map
    /\ price_map[e.title] = e.price

ClaimTitled(i, title) == "title" \in DOMAIN catalogue[i] /\ catalogue[i].title = title

ClaimLaterValid(i) ==
    \E j \in (i + 1)..Len(catalogue) :
        ClaimValidEntry(catalogue[j]) /\ ClaimTitled(j, catalogue[i].title)

\* C1, as claimed: in the map build_price_map returns, no entry with a
\* non-numeric or negative price is held, and every entry with a title and a
\* numeric non-negative price is held under its title with its own price.
C1_EveryValidEntryHeld ==
    pc = "built" =>
        \A i \in 1..Len(catalogue) :
            /\ ClaimBadPrice(catalogue[i]) => ~ClaimHeld(catalogue[i])
            /\ ClaimValidEntry(catalogue[i]) => ClaimHeld(catalogue[i])

\* C1, amended: in the map build_price_map returns, no entry with a
\* non-numeric or negative price is held, the keys are exactly the titles of
\* the valid entries, and every valid entry is held under its title with its
\* own price unless a later valid entry has the same title.
C1_LastValidEntryHeld ==
    pc = "built" =>
        /\ DOMAIN price_map =
               {catalogue[i].title : i \in {j \in 1..Len(catalogue) :
                                               ClaimValidEntry(catalogue[j])}}
        /\ \A i \in 1..Len(catalogue) :
            /\ ClaimBadPrice(catalogue[i]) => ~ClaimHeld(catalogue[i])
            /\ ClaimValidEntry(catalogue[i]) /\ ~ClaimLaterValid(i)
                   => ClaimHeld(catalogue[i])

\* A map was returned for a catalogue with two valid entries of one title and
\* different prices.
C1_TwoValidPricesOfOneTitle ==
    /\ pc = "built"
    /\ \E i, j \in 1..Len(catalogue) :
        /\ i < j
        /\ ClaimValidEntry(catalogue[i])
        /\ ClaimValidEntry(catalogue[j])
        /\ catalogue[i].title = catalogue[j].title
        /\ catalogue[i].price # catalogue[j].price

ClaimOccurrences(title) == {i \in 1..Len(catalogue) : ClaimTitled(i, title)}

ClaimLast(S) == CHOOSE i \in S : \A j \in S : j <= i

\* C6, as claimed: a title that several entries of the catalogue carry is
\* stored with the price of the last entry carrying it.
C6_LastOccurrenceWins ==
    pc = "built" =>
        \A title \in DOMAIN price_map :
            Cardinality(ClaimOccurrences(title)) >= 2 =>
                LET e == catalogue[ClaimLast(ClaimOccurrences(title))]
                IN  "price" \in DOMAIN e /\ price_map[title] = e.price

\* C6, amended: a title that several entries of the catalogue carry is stored
\* with the price of the last entry carrying it whose price is numeric and
\* non-negative.
C6_LastValidOccurrenceWins ==
    pc = "built" =>
        \A title \in DOMAIN price_map :
            Cardinality(ClaimOccurrences(title)) >= 2 =>
                LET valid == {i \in ClaimOccurrences(title) :
                                 ClaimValidEntry(catalogue[i])}
                IN  /\ valid # {}
                    /\ price_map[title] = catalogue[ClaimLast(valid)].price

\* A map was returned that stores a title whose last entry has an invalid
\* price.
C6_LastOccurrenceInvalid ==
    /\ pc = "built"
    /\ \E title \in DOMAIN price_map :
        /\ Cardinality(ClaimOccurrences(title)) >= 2
        /\ ~ClaimValidEntry(catalogue[ClaimLast(ClaimOccurrences(title))])

-----------------------------------------------------------------------------
(* compute_sales, on a price map of any content *)

RECURSIVE ClaimSumTotals(_)
ClaimSumTotals(rs) ==
    IF rs = <<>> THEN 0 ELSE Head(rs).total + ClaimSumTotals(Tail(rs))

\* C2: the running grand total is the sum of the totals of the results
\* recorded so far, after every sale and at the return.
C2_GrandTotalIsSumOfTotals == grand_total = ClaimSumTotals(results)

\* compute_sales returned two results, both with a total above 0.
C2_TwoPositiveTotals ==
    /\ pc = "done"
    /\ Len(results) = 2
    /\ results[1].total > 0
    /\ results[2].total > 0

ClaimField(sale, key) == IF key \in DOMAIN sale THEN sale[key] ELSE UNKNOWN

ClaimItems(sale) ==
    IF "Items" \in DOMAIN sale /\ sale.Items.t = "list" THEN sale.Items.items
    ELSE <<>>

\* C3: the results recorded so far are one per record processed, in the
\* order of the input, each with its record's SALE_ID and Customer, or
\* "UNKNOWN" for the one that is absent; at the return there is one per
\* record of the input.
C3_OneResultPerRecordInOrder ==
    /\ pc \in {"sales", "items"} => Len(results) = si - 1
    /\ pc = "done" => Len(results) = Len(sales)
    /\ Len(results) <= Len(sales)
    /\ \A i \in 1..Len(results) :
        /\ results[i].sale_id = ClaimField(sales[i], "SALE_ID")
        /\ results[i].customer = ClaimField(sales[i], "Customer")

\* compute_sales returned for two records: the first without a SALE_ID, its
\* only item skipped; the second without a Customer and without items.
C3_SkippedItemsAndNoItems ==
    /\ pc = "done"
    /\ Len(sales) = 2
    /\ "SALE_ID" \notin DOMAIN sales[1]
    /\ Len(ClaimItems(sales[1])) = 1
    /\ Len(diag) = 1
    /\ "Customer" \notin DOMAIN sales[2]
    /\ "Items" \notin DOMAIN sales[2]
    /\ results[1].sale_id = UNKNOWN
    /\ results[2].customer = UNKNOWN

ClaimProduct(item)  == IF "Product" \in DOMAIN item THEN item.Product ELSE None
ClaimQuantity(item) == IF "Quantity" \in DOMAIN item THEN item.Quantity ELSE JInt(0)

ClaimUnknown(item) == ClaimProduct(item) \notin DOMAIN price_map

ClaimBadQuantity(item) ==
    ~ClaimNumeric(ClaimQuantity(item)) \/ ClaimQuantity(item).n <= 0

ClaimCounts(item) == ~ClaimUnknown(item) /\ ~ClaimBadQuantity(item)

\* The sum of price * quantity over those of the first k items that count.
RECURSIVE ClaimSum(_, _)
ClaimSum(items, k) ==
    IF k = 0 THEN 0
    ELSE ClaimSum(items, k - 1)
         + (IF ClaimCounts(items[k])
            THEN price_map[ClaimProduct(items[k])].n * ClaimQuantity(items[k]).n
            ELSE 0)

\* C4: the total of a sale is the sum of price * quantity over exactly its
\* items with a product the price map holds and a numeric quantity above 0,
\* both while the sale's items are being processed and in its result.
C4_SaleTotalIsSumOfValidItems ==
    /\ pc = "items" => sale_total = ClaimSum(ClaimItems(sales[si]), ii - 1)
    /\ \A i \in 1..Len(results) :
        results[i].total = ClaimSum(ClaimItems(sales[i]), Len(ClaimItems(sales[i])))

\* compute_sales returned a sale of two items, one that counts and one that
\* does not.
C4_ValidAndSkippedItem ==
    /\ pc = "done"
    /\ \E i \in 1..Len(sales) :
        /\ Len(ClaimItems(sales[i])) = 2
        /\ \E j, k \in 1..2 :
            /\ ClaimCounts(ClaimItems(sales[i])[j])
            /\ ~ClaimCounts(ClaimItems(sales[i])[k])
        /\ results[i].total > 0

ClaimDiagOf(sale, item) ==
    IF ClaimUnknown(item)
    THEN << [level |-> "ERROR", what |-> "product", product |-> ClaimProduct(item),
             sale |-> ClaimField(sale, "SALE_ID")] >>
    ELSE IF ClaimBadQuantity(item)
    THEN << [level |-> "WARNING", what |-> "quantity",
             product |-> ClaimProduct(item),
             sale |-> ClaimField(sale, "SALE_ID"),
             quantity |-> ClaimQuantity(item)] >>
    ELSE <<>>

\* The diagnostics of the first k items of a sale.
RECURSIVE ClaimSaleDiags(_, _)
ClaimSaleDiags(sale, k) ==
    IF k = 0 THEN <<>>
    ELSE ClaimSaleDiags(sale, k - 1) \o ClaimDiagOf(sale, ClaimItems(sale)[k])

\* The diagnostics of the first m sales.
RECURSIVE ClaimDiags(_)
ClaimDiags(m) ==
    IF m = 0 THEN <<>>
    ELSE ClaimDiags(m - 1) \o ClaimSaleDiags(sales[m], Len(ClaimItems(sales[m])))

\* C8: the diagnostics printed so far are, in the order of the sales and of
\* the items within a sale, one per skipped item and none per accepted one:
\* the error for an item whose product the price map lacks, whatever its
\* quantity, and the warning for an item of a known product with an invalid
\* quantity.
C8_OneDiagnosticPerSkippedItem ==
    /\ pc \in {"sales", "done"} => diag = ClaimDiags(si - 1)
    /\ pc = "items" => diag = ClaimDiags(si - 1) \o ClaimSaleDiags(sales[si], ii - 1)
    /\ \A d \in 1..Len(diag) :
        diag[d].level = "WARNING" => diag[d].product \in DOMAIN price_map

\* compute_sales returned after an item with an unknown product and an
\* invalid quantity, which got the error, and an item with a known product
\* and an invalid quantity, which got the warning.
C8_ErrorThenWarning ==
    /\ pc = "done"
    /\ Len(sales) >= 1
    /\ Len(ClaimItems(sales[1])) = 2
    /\ ClaimUnknown(ClaimItems(sales[1])[1])
    /\ ClaimBadQuantity(ClaimItems(sales[1])[1])
    /\ ~ClaimUnknown(ClaimItems(sales[1])[2])
    /\ ClaimBadQuantity(ClaimItems(sales[1])[2])
    /\ Len(diag) = 2
    /\ diag[1].level = "ERROR"
    /\ diag[2].level = "WARNING"

-----------------------------------------------------------------------------
(* build_price_map, then compute_sales with the map it returned *)

ClaimNegativeTitle(title) ==
    \E i \in 1..Len(catalogue) :
        /\ ClaimTitled(i, title)
        /\ "price" \in DOMAIN catalogue[i]
        /\ ClaimNumeric(catalogue[i].price)
        /\ catalogue[i].price.n < 0

ClaimValidTitle(title) ==
    \E i \in 1..Len(catalogue) : ClaimValidEntry(catalogue[i]) /\ ClaimTitled(i, title)

\* The loop of compute_sales is at an item.
ClaimAtItem == pc = "items" /\ ii <= Len(ClaimItems(sales[si]))

ClaimNextItem == ClaimItems(sales[si])[ii]

\* The step treats the item as an unknown product: the error, no contribution.
ClaimSkippedAsUnknown ==
    /\ diag' = Append(diag, [level |-> "ERROR", what |-> "product",
                             product |-> ClaimProduct(ClaimNextItem),
                             sale |-> ClaimField(sales[si], "SALE_ID")])
    /\ sale_total' = sale_total

ClaimNegativeEntriesNotHeld ==
    \A i \in 1..Len(catalogue) :
        "price" \in DOMAIN catalogue[i] /\ ClaimNumeric(catalogue[i].price)
            /\ catalogue[i].price.n < 0
        => ~ClaimHeld(catalogue[i])

\* C5, as claimed: an entry with a negative price is never held by the map,
\* and every item whose product is the title of such an entry is skipped as
\* an unknown product, with the error and no contribution.
C5_NegativeTitleAlwaysUnknown ==
    /\ []ClaimNegativeEntriesNotHeld
    /\ [][ClaimAtItem /\ ClaimNegativeTitle(ClaimProduct(ClaimNextItem))
              => ClaimSkippedAsUnknown]_vars

\* C5, amended: an entry with a negative price is never held by the map, and
\* every item whose product is the title of such an entry is skipped as an
\* unknown product, with the error and no contribution, unless another entry
\* of the catalogue has the same title and a valid price; the product is then
\* known, and the step prints no error.
C5_NegativeTitleUnknownUnlessValidElsewhere ==
    /\ []ClaimNegativeEntriesNotHeld
    /\ [][ClaimAtItem /\ ClaimNegativeTitle(ClaimProduct(ClaimNextItem))
              => IF ClaimValidTitle(ClaimProduct(ClaimNextItem))
                 THEN /\ ClaimProduct(ClaimNextItem) \in DOMAIN price_map
                      /\ price_map[ClaimProduct(ClaimNextItem)].n >= 0
                      /\ ~ClaimSkippedAsUnknown
                 ELSE ClaimSkippedAsUnknown]_vars

\* An item was just skipped with the error, its product the title of an
\* entry with a negative price and of no valid entry.
C5_NegativeTitleSkipped ==
    /\ pc = "items"
    /\ ii > 1
    /\ ii <= Len(ClaimItems(sales[si])) + 1
    /\ ClaimNegativeTitle(ClaimProduct(ClaimItems(sales[si])[ii - 1]))
    /\ ~ClaimValidTitle(ClaimProduct(ClaimItems(sales[si])[ii - 1]))
    /\ diag # <<>>
    /\ diag[Len(diag)].level = "ERROR"
    /\ sale_total = 0

\* C7: build_price_map followed by compute_sales never ends in a raised
\* failure, whatever is missing, null or of the wrong type in the records.
C7_NeverRaises == pc # "raised"

ClaimTotalsNonNegative ==
    /\ sale_total >= 0
    /\ grand_total >= 0
    /\ \A i \in 1..Len(results) : results[i].total >= 0

ClaimEmptySalesEmptyResults ==
    pc = "done" /\ sales = <<>> => results = <<>> /\ grand_total = 0

\* C10: with the price map build_price_map returned, the running sale total
\* and grand total and every recorded total are at least 0 at every point,
\* the grand total never decreases, the sale total never decreases from one
\* item of a sale to the next, and an empty sales list returns no result and
\* a grand total of 0.
C10_TotalsNonNegativeAndMonotone ==
    /\ [](ClaimTotalsNonNegative /\ ClaimEmptySalesEmptyResults)
    /\ [][/\ grand_total' >= grand_total
          /\ pc = "items" /\ pc' = "items" => sale_total' >= sale_total]_vars

\* The pipeline returned two results for a catalogue with a negative price,
\* the grand total above the first total, itself above 0.
C10_TwoSalesAfterNegativePrice ==
    /\ pc = "done"
    /\ \E i \in 1..Len(catalogue) :
        "title" \in DOMAIN catalogue[i] /\ ClaimNegativeTitle(catalogue[i].title)
    /\ Len(results) = 2
    /\ results[1].total > 0
    /\ grand_total > results[1].total

-----------------------------------------------------------------------------
(* format_output *)

ClaimFirstNewline(text) ==
    CHOOSE k \in 1..Len(text) : text[k] = NL /\ \A j \in 1..(k - 1) : text[j] # NL

\* text.split("\n")
RECURSIVE ClaimSplit(_)
ClaimSplit(text) ==
    IF \A k \in 1..Len(text) : text[k] # NL THEN <<text>>
    ELSE <<SubSeq(text, 1, ClaimFirstNewline(text) - 1)>>
         \o ClaimSplit(SubSeq(text, ClaimFirstNewline(text) + 1, Len(text)))

ClaimRun(line, c, k) == Len(line) = k /\ \A j \in 1..k : line[j] = c

ClaimStartsWith(line, prefix) ==
    Len(line) >= Len(prefix) /\ SubSeq(line, 1, Len(prefix)) = prefix

ClaimEndsWith(line, suffix) ==
    Len(line) >= Len(suffix)
    /\ SubSeq(line, Len(line) - Len(suffix) + 1, Len(line)) = suffix

\* C9: the report for n results is 4n + 6 lines joined by newlines, the last
\* line not followed by one: a banner of 50 "=", the title, a banner; for
\* each result in order its Sale ID, Customer and Total lines and a line of
\* 50 "-"; the GRAND TOTAL line, a banner of 50 "=", the Execution time line.
C9_ReportLayout ==
    pc = "formatted" =>
        LET ls == ClaimSplit(output)
            n  == Len(results)
        IN  /\ Len(ls) = 4 * n + 6
            /\ output[Len(output)] # NL
            /\ ClaimRun(ls[1], "=", 50)
            /\ ClaimEndsWith(ls[2], <<"S", "A", "L", "E", "S", " ", "R", "E",
                                      "S", "U", "L", "T", "S", " ", "R", "E",
                                      "P", "O", "R", "T">>)
            /\ ClaimRun(ls[3], "=", 50)
            /\ \A i \in 1..n :
                /\ ClaimStartsWith(ls[4 * i], <<"S", "a", "l", "e", " ", "I", "D">>)
                /\ ClaimEndsWith(ls[4 * i], results[i].sale_id.s)
                /\ ClaimStartsWith(ls[4 * i + 1], <<"C", "u", "s", "t", "o", "m",
                                                    "e", "r">>)
                /\ ClaimEndsWith(ls[4 * i + 1], results[i].customer.s)
                /\ ClaimStartsWith(ls[4 * i + 2], <<"T", "o", "t", "a", "l">>)
                /\ ClaimRun(ls[4 * i + 3], "-", 50)
            /\ ClaimStartsWith(ls[4 * n + 4], <<"G", "R", "A", "N", "D", " ", "T",
                                                "O", "T", "A", "L", ":">>)
            /\ ClaimRun(ls[4 * n + 5], "=", 50)
            /\ ClaimStartsWith(ls[4 * n + 6], <<"E", "x", "e", "c", "u", "t", "i",
                                                "o", "n", " ", "t", "i", "m", "e",
                                                ":">>)

\* format_output returned the report of two results.
C9_ReportOfTwoResults ==
    /\ pc = "formatted"
    /\ Len(results) = 2
    /\ results[1] # results[2]
    /\ Len(lines) = 14

=============================================================================
